---- MODULE Spec2Model ----
(***************************************************************************)
(* Model of gh-iterator's concurrent pipeline (runForReposConcurrently):   *)
(* one producer goroutine, nOfWorkers worker goroutines and the top-level  *)
(* select loop, coordinated through repoC, errC, doneC, the WaitGroup and  *)
(* the context.                                                            *)
(***************************************************************************)
EXTENDS Integers, Sequences, FiniteSets, TLC

\* ---------------------------------------------------------------- bounds
MaxPages == 2
MaxPageLen == 2
MaxRepos == 3
MaxWorkers == 2

\* ------------------------------------------------------ repository records
\* The Repository struct, restricted to the fields the pipeline reads.
Repository(name, archived, fork, size, branch) ==
  [Name |-> name, Archived |-> archived, Fork |-> fork, Size |-> size,
   DefaultBranchName |-> branch]

\* The shapes of record the lister can hand to the pipeline: a regular
\* repository, an archived one, an empty one (size 0) and one that has
\* commits but no default branch.
RepoShapes ==
  { [Archived |-> FALSE, Fork |-> FALSE, Size |-> 1, DefaultBranchName |-> "main"],
    [Archived |-> TRUE,  Fork |-> FALSE, Size |-> 1, DefaultBranchName |-> "main"],
    [Archived |-> FALSE, Fork |-> FALSE, Size |-> 0, DefaultBranchName |-> "main"],
    [Archived |-> FALSE, Fork |-> FALSE, Size |-> 1, DefaultBranchName |-> ""] }

\* ------------------------------------------------------------ filter chain
defaultSearchFilterInForks(r) == ~r.Archived /\ r.Size > 0

defaultSearchFilterIn(r) == ~r.Archived /\ ~r.Fork /\ r.Size > 0

\* The --search-filter conditions of the model.  CelConds compile; the
\* condition of InvalidConds is rejected by env.Compile.
CelConds ==
  { "true", "repo.archived", "!repo.fork", "repo.isEmpty", "repo.name",
    "repo.Size", "repo.archived || repo.Size" }
InvalidConds == { "repo.Language ==" }
AllConds == {""} \cup CelConds \cup InvalidConds

\* The conditions the pipeline specification runs with: the empty one (the
\* default filter) and one that is true of every repository.
SearchFilters == {"", "true"}

\* The map the predicate hands to the CEL program.
RepoMap(r) ==
  [name |-> r.Name, archived |-> r.Archived, fork |-> r.Fork,
   isEmpty |-> (r.Size = 0)]

CelBool(b) == [kind |-> "bool", val |-> b]
CelValue == [kind |-> "value", val |-> FALSE]
CelError == [kind |-> "error", val |-> FALSE]

\* prg.Eval: a boolean, a value of another type (repo.name is a string), or
\* an error (the map has no key Size; `||` absorbs the error of one operand
\* when the other is true).
CelEval(cond, m) ==
  CASE cond = "true" -> CelBool(TRUE)
    [] cond = "repo.archived" -> CelBool(m.archived)
    [] cond = "!repo.fork" -> CelBool(~m.fork)
    [] cond = "repo.isEmpty" -> CelBool(m.isEmpty)
    [] cond = "repo.name" -> CelValue
    [] cond = "repo.Size" -> CelError
    [] cond = "repo.archived || repo.Size" ->
         IF m.archived THEN CelBool(TRUE) ELSE CelError

\* The closure parseSearchFilterIn returns for a compiled condition: an
\* evaluation error is logged and gives false, a non-boolean gives false.
CelPredicateFailOpen(cond, r) ==
  LET out == CelEval(cond, RepoMap(r))
  IN  IF out.kind = "error" THEN TRUE ELSE out.kind = "bool" /\ out.val

CelPredicate(cond, r) ==
  LET out == CelEval(cond, RepoMap(r))
  IN  IF out.kind = "error" THEN FALSE ELSE out.kind = "bool" /\ out.val

\* parseSearchFilterIn: the predicate it returns, applied to r.
parseSearchFilterIn(cond, r) ==
  IF cond = "" THEN defaultSearchFilterIn(r) ELSE CelPredicate(cond, r)

\* SearchOptions.MakeFilterIn as main.go calls it: only FilterIn is set, so
\* the filter list holds the custom filter alone.
MakeFilterIn(cond, r) == parseSearchFilterIn(cond, r)

\* ------------------------------------------------------------------ values
NilErr == [kind |-> "nil", repo |-> 0, cause |-> "none"]
\* issues.Err() of env.Compile
CompileErr == [kind |-> "compile", repo |-> 0, cause |-> "none"]
CtxErr == [kind |-> "ctx", repo |-> 0, cause |-> "none"]
\* fmt.Errorf("processing %q: %w", repo.Name, err)
WrapErr(name, cause) == [kind |-> "processing", repo |-> name, cause |-> cause]

\* parseSearchFilterIn: the error it returns.
parseSearchFilterInErr(cond) ==
  IF cond = "" THEN NilErr
  ELSE IF cond \in CelConds THEN NilErr ELSE CompileErr

Result(f, i, p) == [Found |-> f, Inspected |-> i, Processed |-> p]
ZeroResult == Result(0, 0, 0)
NoReturn == [res |-> ZeroResult, err |-> NilErr]

RECURSIVE SumLen(_)
SumLen(pages) ==
  IF pages = <<>> THEN 0 ELSE Len(Head(pages)) + SumLen(Tail(pages))

\* The records in the order the nested range loops visit them.
RECURSIVE Flat(_)
Flat(pages) ==
  IF pages = <<>> THEN <<>> ELSE Head(pages) \o Flat(Tail(pages))

\* Pages as the lister produces them: every page is non-empty and full names
\* are unique within a run (the name is the record's position).
RECURSIVE Rename(_, _)
Rename(pages, base) ==
  IF pages = <<>> THEN <<>>
  ELSE << [i \in 1..Len(Head(pages)) |->
             Repository(base + i, Head(pages)[i].Archived, Head(pages)[i].Fork,
                        Head(pages)[i].Size, Head(pages)[i].DefaultBranchName)] >>
       \o Rename(Tail(pages), base + Len(Head(pages)))

\* The filter specification runs one page over the shapes the default
\* filter tells apart: regular, archived, fork, empty.
MaxFilterPageLen == 2
FilterShapes ==
  { [Archived |-> FALSE, Fork |-> FALSE, Size |-> 1, DefaultBranchName |-> "main"],
    [Archived |-> TRUE,  Fork |-> FALSE, Size |-> 1, DefaultBranchName |-> "main"],
    [Archived |-> FALSE, Fork |-> TRUE,  Size |-> 1, DefaultBranchName |-> "main"],
    [Archived |-> FALSE, Fork |-> FALSE, Size |-> 0, DefaultBranchName |-> "main"] }
FilterPages ==
  { Rename(<< pg >>, 0) :
      pg \in UNION { [1..n -> FilterShapes] : n \in 1..MaxFilterPageLen } }

PageShapes == UNION { [1..n -> RepoShapes] : n \in 1..MaxPageLen }
PageLists == UNION { [1..n -> PageShapes] : n \in 0..MaxPages }
RepoPages == { Rename(ps, 0) : ps \in { l \in PageLists : SumLen(l) <= MaxRepos } }

\* What processRepository can do with a record.  "ok" and "processor" are the
\* two outcomes in which the Processor was invoked.
ProcessOutcomes(r) ==
  IF r.Size = 0 THEN {"ok", "processor"}
  ELSE IF r.DefaultBranchName = "" THEN {"clone", "noDefaultBranch"}
  ELSE {"clone", "ok", "processor"}

VARIABLES
  repoPages,    \* input: the pages of repositories
  nOfWorkers,   \* input: the size of the pool
  filterIn,     \* input: the search filter
  ctxDone,      \* the context has been cancelled
  repoC,        \* buffered work queue (capacity nOfWorkers)
  repoCClosed,
  errC,         \* buffered error channel (capacity nOfWorkers)
  errCClosed,
  doneC,        \* TRUE once doneC is closed
  mFound, mInspected, mProcessed,
  wPc, wRepo, wErr,   \* per worker: position, record in hand, error to send
  pPc, pPos,          \* producer: position, index of the record at hand
  mainPc, mErr, ret,  \* top-level loop: position, received error, returned value
  panicked,           \* "" or the runtime panic that ended the process
  invoked,            \* history: Processor invocations per repository name
  errSent,            \* history: the errors put on errC, in order
  errStop,            \* history: the top-level loop took an error and closed doneC
  late,               \* history: records enqueued while errStop
  skipped,            \* history: records a worker dropped on ctx.Done
  clock,              \* what time.Now() returns
  fs,                 \* the directories under reposDir and what each holds
  callers,            \* per processRepository call: repo and opts
  cPc,                \* per call: position
  cCloneDir,          \* per call: cloneDir
  cRepoDir,           \* per call: the directory handed to the Processor
  cDirect,            \* per call: shouldReturnDirectly
  cErr,               \* per call: the error returned
  cIsEmpty,           \* history: the isEmpty argument the Processor got
  cTouched,           \* history: the call ran a file-system operation
  cStat,              \* history: what the call's os.Stat found
  tornDown,           \* another run's deferred os.RemoveAll(reposDir) ran
  searchOpts,         \* RunForOrganization: the pagination options given
  target,             \* RunForOrganization: the request path built so far
  ghArgs,             \* RunForOrganization: flags appended to the gh arguments
  ghCalls,            \* RunForOrganization: number of gh invocations made
  numberOfWorkers,    \* RunForOrganization: Options.NumberOfWorkers
  optSo,              \* MakeFilterIn: the SearchOptions it is called on
  optRepo,            \* MakeFilterIn: the repository the predicate is applied to
  optOut,             \* MakeFilterIn: what the predicate returned
  opts,               \* the Options of the run: CloneCacheKey, CloningSubset
  repoName,           \* RunForRepository: the name it is called with
  rfrPc,              \* RunForRepository: its position
  rfrErr,             \* RunForRepository: the error it returns
  rfrCmds             \* RunForRepository: number of commands it has run

vars == << repoPages, nOfWorkers, filterIn, ctxDone, repoC, repoCClosed, errC,
           errCClosed, doneC, mFound, mInspected, mProcessed, wPc, wRepo, wErr,
           pPc, pPos, mainPc, mErr, ret, panicked, invoked, errSent, errStop,
           late, skipped, clock, fs, callers, cPc, cCloneDir, cRepoDir,
           cDirect, cErr, cIsEmpty, cTouched, cStat, tornDown,
           searchOpts, target, ghArgs, ghCalls, numberOfWorkers, optSo, optRepo,
           optOut, opts, repoName, rfrPc, rfrErr, rfrCmds >>

runVars == << opts, repoName, rfrPc, rfrErr, rfrCmds >>

orgVars == << searchOpts, target, ghArgs, ghCalls, numberOfWorkers >>
optVars == << optSo, optRepo, optOut >>

cacheVars == << clock, fs, callers, cPc, cCloneDir, cRepoDir, cDirect, cErr,
                cIsEmpty, cTouched, cStat, tornDown >>
inputs == << repoPages, nOfWorkers, filterIn >>
counters == << mFound, mInspected, mProcessed >>
chans == << repoC, repoCClosed, errC, errCClosed, doneC >>
workerVars == << wPc, wRepo, wErr >>
producerVars == << pPc, pPos >>
mainVars == << mainPc, mErr, ret >>
history == << invoked, errSent, errStop, late, skipped >>

Workers == 1..nOfWorkers
Repos == Flat(repoPages)
NumRepos == Len(Repos)
Running == panicked = ""
SomeWorkerDone == \E w \in Workers : wPc[w] = "exit"

AllWorkersDone == \A w \in Workers : wPc[w] = "exit"

\* The state in which the top-level function is at position pc, before any
\* goroutine has started.
InitRest(pc) ==
  /\ ctxDone = FALSE
  /\ repoC = <<>> /\ repoCClosed = FALSE
  /\ errC = <<>> /\ errCClosed = FALSE
  /\ doneC = FALSE
  /\ mFound = 0 /\ mInspected = 0 /\ mProcessed = 0
  /\ wPc = [w \in 1..nOfWorkers |-> "idle"]
  /\ wRepo = [w \in 1..nOfWorkers |-> 0]
  /\ wErr = [w \in 1..nOfWorkers |-> NilErr]
  /\ pPc = "idle" /\ pPos = 1
  /\ mainPc = pc /\ mErr = NilErr /\ ret = NoReturn
  /\ panicked = ""
  /\ invoked = [n \in 1..SumLen(repoPages) |-> 0]
  /\ errSent = <<>>
  /\ errStop = FALSE
  /\ late = {}
  /\ skipped = {}

\* No processRepository call is modelled on its own: the pipeline
\* specifications abstract the call as ProcessOutcomes.
CacheIdle ==
  /\ clock = 0 /\ fs = << >> /\ callers = << >> /\ cPc = << >>
  /\ cCloneDir = << >> /\ cRepoDir = << >> /\ cDirect = << >>
  /\ cErr = << >> /\ cIsEmpty = << >> /\ cTouched = << >>
  /\ cStat = << >> /\ tornDown = FALSE

\* The request path RunForOrganization formats: /orgs/<org>/repos with
\* ?per_page=<n> and, when set, &page=<n>; 0 stands for a part not written.
Target(perPage, page) == [per_page |-> perPage, page |-> page]

\* runForReposConcurrently entered directly: no listing took place.
OrgIdle ==
  /\ searchOpts = [PerPage |-> 0, Page |-> 0]
  /\ target = Target(0, 0) /\ ghArgs = {} /\ ghCalls = 0
  /\ numberOfWorkers = 0

\* The errors RunForRepository returns; nil is RfrNil.
RfrNil == [kind |-> "nil", repo |-> "", cause |-> "none"]

\* No RunForRepository call is under way and the Options play no part.
RunIdle ==
  /\ opts = [CloneCacheKey |-> "nil", CloningSubset |-> << >>]
  /\ repoName = << >> /\ rfrPc = "idle" /\ rfrErr = RfrNil /\ rfrCmds = 0

\* No predicate of SearchOptions.MakeFilterIn is under evaluation.
OptIdle == optSo = << >> /\ optRepo = << >> /\ optOut = "unset"

Init ==
  /\ OrgIdle /\ OptIdle /\ RunIdle
  /\ CacheIdle
  /\ repoPages \in RepoPages
  /\ nOfWorkers \in 1..MaxWorkers
  /\ filterIn \in SearchFilters
  /\ InitRest("start")

\* ------------------------------------------------------------ environment
\* The caller cancels the context.  After the run has returned doneC is
\* closed on every path, so a later cancellation changes nothing the
\* remaining goroutines can observe.
Cancel ==
  /\ Running /\ ~ctxDone /\ mainPc # "returned"
  /\ ctxDone' = TRUE
  /\ UNCHANGED << runVars, optVars, orgVars, cacheVars, inputs, chans, counters, workerVars, producerVars, mainVars,
                  panicked, history >>

\* ------------------------------------------------------------------ setup
\* mFound is summed over the pages, then the workers and the producer start.
MStartCountPages ==
  /\ Running /\ mainPc = "start"
  /\ mFound' = Len(repoPages)
  /\ wPc' = [w \in Workers |-> "recv"]
  /\ pPc' = "loop"
  /\ mainPc' = "select"
  /\ UNCHANGED << runVars, optVars, orgVars, cacheVars, inputs, ctxDone, chans, mInspected, mProcessed, wRepo, wErr,
                  pPos, mErr, ret, panicked, history >>

MStart ==
  /\ Running /\ mainPc = "start"
  /\ mFound' = SumLen(repoPages)
  /\ wPc' = [w \in Workers |-> "recv"]
  /\ pPc' = "loop"
  /\ mainPc' = "select"
  /\ UNCHANGED << runVars, optVars, orgVars, cacheVars, inputs, ctxDone, chans, mInspected, mProcessed, wRepo, wErr,
                  pPos, mErr, ret, panicked, history >>

\* ---------------------------------------------------------------- workers
\* A receive that would leave the record on the queue.
WRecvNoPop(w) ==
  /\ Running /\ wPc[w] = "recv"
  /\ \/ /\ repoC # <<>>
        /\ wRepo' = [wRepo EXCEPT ![w] = Head(repoC)]
        /\ repoC' = repoC
        /\ wPc' = [wPc EXCEPT ![w] = "select"]
     \/ /\ repoC = <<>> /\ repoCClosed
        /\ wPc' = [wPc EXCEPT ![w] = "exit"]
        /\ UNCHANGED << wRepo, repoC >>
  /\ UNCHANGED << runVars, optVars, orgVars, cacheVars, inputs, ctxDone, repoCClosed, errC, errCClosed, doneC,
                  counters, wErr, producerVars, mainVars, panicked, history >>

\* `for repo := range repoC`: take the next record, or leave the loop (and
\* run the deferred wg.Done) once the queue is closed and drained.
WRecv(w) ==
  /\ Running /\ wPc[w] = "recv"
  /\ \/ /\ repoC # <<>>
        /\ wRepo' = [wRepo EXCEPT ![w] = Head(repoC)]
        /\ repoC' = Tail(repoC)
        /\ wPc' = [wPc EXCEPT ![w] = "select"]
     \/ /\ repoC = <<>> /\ repoCClosed
        /\ wPc' = [wPc EXCEPT ![w] = "exit"]
        /\ UNCHANGED << wRepo, repoC >>
  /\ UNCHANGED << runVars, optVars, orgVars, cacheVars, inputs, ctxDone, repoCClosed, errC, errCClosed, doneC,
                  counters, wErr, producerVars, mainVars, panicked, history >>

\* A worker that would not look at ctx.Done() before processing.
WSelectNoCtx(w) ==
  /\ Running /\ wPc[w] = "select"
  /\ IF FALSE
       THEN /\ wPc' = [wPc EXCEPT ![w] = "recv"]
            /\ wRepo' = [wRepo EXCEPT ![w] = 0]
            /\ skipped' = skipped \cup {wRepo[w]}
       ELSE /\ wPc' = [wPc EXCEPT ![w] = "processing"]
            /\ UNCHANGED << wRepo, skipped >>
  /\ UNCHANGED << runVars, optVars, orgVars, cacheVars, inputs, ctxDone, chans, counters, wErr, producerVars,
                  mainVars, panicked, invoked, errSent, errStop, late >>

\* `select { case <-ctx.Done(): continue; default: processRepository(...) }`
WSelect(w) ==
  /\ Running /\ wPc[w] = "select"
  /\ IF ctxDone
       THEN /\ wPc' = [wPc EXCEPT ![w] = "recv"]
            /\ wRepo' = [wRepo EXCEPT ![w] = 0]
            /\ skipped' = skipped \cup {wRepo[w]}
       ELSE /\ wPc' = [wPc EXCEPT ![w] = "processing"]
            /\ UNCHANGED << wRepo, skipped >>
  /\ UNCHANGED << runVars, optVars, orgVars, cacheVars, inputs, ctxDone, chans, counters, wErr, producerVars,
                  mainVars, panicked, invoked, errSent, errStop, late >>

\* The outcomes after which the worker continues with the next record: a
\* nil error, and an error that errors.Is errNoDefaultBranch.
IsAbsorbedNilOnly(out) == out = "ok"

IsAbsorbed(out) == out \in {"ok", "noDefaultBranch"}

\* processRepository returns: nil and errNoDefaultBranch continue the loop,
\* any other error is wrapped with the repository name and goes to errC.
WProcess(w) ==
  /\ Running /\ wPc[w] = "processing"
  /\ \E out \in ProcessOutcomes(Repos[wRepo[w]]) :
       /\ invoked' = IF out \in {"ok", "processor"}
                       THEN [invoked EXCEPT ![wRepo[w]] = @ + 1]
                       ELSE invoked
       /\ IF IsAbsorbed(out)
            THEN /\ wPc' = [wPc EXCEPT ![w] = "recv"]
                 /\ wRepo' = [wRepo EXCEPT ![w] = 0]
                 /\ UNCHANGED wErr
            ELSE /\ wPc' = [wPc EXCEPT ![w] = "senderr"]
                 /\ wErr' = [wErr EXCEPT ![w] = WrapErr(wRepo[w], out)]
                 /\ UNCHANGED wRepo
  /\ UNCHANGED << runVars, optVars, orgVars, cacheVars, inputs, ctxDone, chans, counters, producerVars, mainVars,
                  panicked, errSent, errStop, late, skipped >>

\* `errC <- fmt.Errorf(...); return`
WSendErr(w) ==
  /\ Running /\ wPc[w] = "senderr"
  /\ IF errCClosed
       THEN /\ panicked' = "send on closed channel"
            /\ UNCHANGED << errC, errSent, wPc, wRepo, wErr >>
       ELSE /\ Len(errC) < nOfWorkers
            /\ errC' = Append(errC, wErr[w])
            /\ errSent' = Append(errSent, wErr[w])
            /\ wPc' = [wPc EXCEPT ![w] = "exit"]
            /\ wRepo' = [wRepo EXCEPT ![w] = 0]
            /\ wErr' = [wErr EXCEPT ![w] = NilErr]
            /\ UNCHANGED panicked
  /\ UNCHANGED << runVars, optVars, orgVars, cacheVars, inputs, ctxDone, repoC, repoCClosed, errCClosed, doneC,
                  counters, producerVars, mainVars, invoked, errStop, late,
                  skipped >>

\* An inspection that would count only the records passing the filter.
PInspectAcceptedOnly ==
  /\ Running /\ pPc = "loop" /\ pPos <= NumRepos
  /\ mInspected' = IF MakeFilterIn(filterIn, Repos[pPos])
                    THEN mInspected + 1 ELSE mInspected
  /\ IF MakeFilterIn(filterIn, Repos[pPos])
       THEN /\ mProcessed' = mProcessed + 1
            /\ pPc' = "select"
            /\ UNCHANGED pPos
       ELSE /\ pPos' = pPos + 1
            /\ UNCHANGED << mProcessed, pPc >>
  /\ UNCHANGED << runVars, optVars, orgVars, cacheVars, inputs, ctxDone, chans, mFound, workerVars, mainVars,
                  panicked, history >>

\* --------------------------------------------------------------- producer
\* Under mMux: count the record as inspected, filter it, count it as
\* processed if it passes.
PInspect ==
  /\ Running /\ pPc = "loop" /\ pPos <= NumRepos
  /\ mInspected' = mInspected + 1
  /\ IF MakeFilterIn(filterIn, Repos[pPos])
       THEN /\ mProcessed' = mProcessed + 1
            /\ pPc' = "select"
            /\ UNCHANGED pPos
       ELSE /\ pPos' = pPos + 1
            /\ UNCHANGED << mProcessed, pPc >>
  /\ UNCHANGED << runVars, optVars, orgVars, cacheVars, inputs, ctxDone, chans, mFound, workerVars, mainVars,
                  panicked, history >>

\* `select { case <-ctx.Done(): return; case <-doneC: return; default: }`
PSelect ==
  /\ Running /\ pPc = "select"
  /\ pPc' = IF ctxDone \/ doneC THEN "closeRepo" ELSE "send"
  /\ UNCHANGED << runVars, optVars, orgVars, cacheVars, inputs, ctxDone, chans, counters, workerVars, pPos,
                  mainVars, panicked, history >>

\* A send that would put the record at the head of the queue.
PSendFront ==
  /\ Running /\ pPc = "send"
  /\ IF repoCClosed
       THEN /\ panicked' = "send on closed channel"
            /\ UNCHANGED << repoC, pPc, pPos, late >>
       ELSE /\ Len(repoC) < nOfWorkers
            /\ repoC' = << pPos >> \o repoC
            /\ pPos' = pPos + 1
            /\ pPc' = "loop"
            /\ late' = IF errStop THEN late \cup {pPos} ELSE late
            /\ UNCHANGED panicked
  /\ UNCHANGED << runVars, optVars, orgVars, cacheVars, inputs, ctxDone, repoCClosed, errC, errCClosed, doneC,
                  counters, workerVars, mainVars, invoked, errSent, errStop,
                  skipped >>

\* `repoC <- repo` in the default branch: a plain blocking send.
PSend ==
  /\ Running /\ pPc = "send"
  /\ IF repoCClosed
       THEN /\ panicked' = "send on closed channel"
            /\ UNCHANGED << repoC, pPc, pPos, late >>
       ELSE /\ Len(repoC) < nOfWorkers
            /\ repoC' = Append(repoC, pPos)
            /\ pPos' = pPos + 1
            /\ pPc' = "loop"
            /\ late' = IF errStop THEN late \cup {pPos} ELSE late
            /\ UNCHANGED panicked
  /\ UNCHANGED << runVars, optVars, orgVars, cacheVars, inputs, ctxDone, repoCClosed, errC, errCClosed, doneC,
                  counters, workerVars, mainVars, invoked, errSent, errStop,
                  skipped >>

\* `close(doneC)` after the last page.
PCloseDone ==
  /\ Running /\ pPc = "loop" /\ pPos > NumRepos
  /\ IF doneC
       THEN /\ panicked' = "close of closed channel"
            /\ UNCHANGED << doneC, pPc >>
       ELSE /\ doneC' = TRUE
            /\ pPc' = "closeRepo"
            /\ UNCHANGED panicked
  /\ UNCHANGED << runVars, optVars, orgVars, cacheVars, inputs, ctxDone, repoC, repoCClosed, errC, errCClosed,
                  counters, workerVars, pPos, mainVars, history >>

\* `defer close(repoC)`
PCloseRepo ==
  /\ Running /\ pPc = "closeRepo"
  /\ repoCClosed' = TRUE
  /\ pPc' = "done"
  /\ UNCHANGED << runVars, optVars, orgVars, cacheVars, inputs, ctxDone, repoC, errC, errCClosed, doneC, counters,
                  workerVars, pPos, mainVars, panicked, history >>

\* --------------------------------------------------------- top-level loop
\* wg.Wait() returns once every worker has run its deferred wg.Done.
NoWait == TRUE

WaitGroupDone == AllWorkersDone

\* A receive that would take the error sent last.
MRecvErrLast ==
  /\ Running /\ mainPc = "select"
  /\ errC # <<>>
  /\ mErr' = errC[Len(errC)]
  /\ errC' = SubSeq(errC, 1, Len(errC) - 1)
  /\ mainPc' = "errClose"
  /\ UNCHANGED << runVars, optVars, orgVars, cacheVars, inputs, ctxDone, repoC, repoCClosed, errCClosed, doneC,
                  counters, workerVars, producerVars, ret, panicked, history >>

\* `case err, ok := <-errC:` with ok true.
MRecvErr ==
  /\ Running /\ mainPc = "select"
  /\ errC # <<>>
  /\ mErr' = Head(errC)
  /\ errC' = Tail(errC)
  /\ mainPc' = "errClose"
  /\ UNCHANGED << runVars, optVars, orgVars, cacheVars, inputs, ctxDone, repoC, repoCClosed, errCClosed, doneC,
                  counters, workerVars, producerVars, ret, panicked, history >>

\* `close(doneC)` in the error case.
MErrCloseDone ==
  /\ Running /\ mainPc = "errClose"
  /\ IF doneC
       THEN /\ panicked' = "close of closed channel"
            /\ UNCHANGED << doneC, mainPc, errStop >>
       ELSE /\ doneC' = TRUE
            /\ mainPc' = "errWait"
            /\ errStop' = TRUE
            /\ UNCHANGED panicked
  /\ UNCHANGED << runVars, optVars, orgVars, cacheVars, inputs, ctxDone, repoC, repoCClosed, errC, errCClosed,
                  counters, workerVars, producerVars, mErr, ret, invoked,
                  errSent, late, skipped >>

\* A return that would hand the counters over together with the error.
MErrReturnWithCounts ==
  /\ Running /\ mainPc = "errWait"
  /\ WaitGroupDone
  /\ errCClosed' = TRUE
  /\ ret' = [res |-> Result(mFound, mInspected, mProcessed), err |-> mErr]
  /\ mainPc' = "returned"
  /\ UNCHANGED << runVars, optVars, orgVars, cacheVars, inputs, ctxDone, repoC, repoCClosed, errC, doneC, counters,
                  workerVars, producerVars, mErr, panicked, history >>

\* `wg.Wait(); close(errC); return Result{}, err`
MErrReturn ==
  /\ Running /\ mainPc = "errWait"
  /\ WaitGroupDone
  /\ errCClosed' = TRUE
  /\ ret' = [res |-> ZeroResult, err |-> mErr]
  /\ mainPc' = "returned"
  /\ UNCHANGED << runVars, optVars, orgVars, cacheVars, inputs, ctxDone, repoC, repoCClosed, errC, doneC, counters,
                  workerVars, producerVars, mErr, panicked, history >>

\* `case <-ctx.Done():`
MCtxDone ==
  /\ Running /\ mainPc = "select"
  /\ ctxDone
  /\ mainPc' = "ctxWait"
  /\ UNCHANGED << runVars, optVars, orgVars, cacheVars, inputs, ctxDone, chans, counters, workerVars, producerVars,
                  mErr, ret, panicked, history >>

\* `wg.Wait()` then `select { case <-doneC: default: ... }`: with doneC
\* already closed the loop closes errC and returns ctx.Err().
MCtxWait ==
  /\ Running /\ mainPc = "ctxWait"
  /\ WaitGroupDone
  /\ IF doneC
       THEN /\ errCClosed' = TRUE
            /\ ret' = [res |-> ZeroResult, err |-> CtxErr]
            /\ mainPc' = "returned"
       ELSE /\ mainPc' = "ctxClose"
            /\ UNCHANGED << errCClosed, ret >>
  /\ UNCHANGED << runVars, optVars, orgVars, cacheVars, inputs, ctxDone, repoC, repoCClosed, errC, doneC, counters,
                  workerVars, producerVars, mErr, panicked, history >>

\* The default branch: `close(doneC)`, then `close(errC); return`.
MCtxCloseDone ==
  /\ Running /\ mainPc = "ctxClose"
  /\ IF doneC
       THEN /\ panicked' = "close of closed channel"
            /\ UNCHANGED << doneC, errCClosed, ret, mainPc >>
       ELSE /\ doneC' = TRUE
            /\ errCClosed' = TRUE
            /\ ret' = [res |-> ZeroResult, err |-> CtxErr]
            /\ mainPc' = "returned"
            /\ UNCHANGED panicked
  /\ UNCHANGED << runVars, optVars, orgVars, cacheVars, inputs, ctxDone, repoC, repoCClosed, errC, counters,
                  workerVars, producerVars, mErr, history >>

\* `case <-doneC:`
MDone ==
  /\ Running /\ mainPc = "select"
  /\ doneC
  /\ mainPc' = "doneWait"
  /\ UNCHANGED << runVars, optVars, orgVars, cacheVars, inputs, ctxDone, chans, counters, workerVars, producerVars,
                  mErr, ret, panicked, history >>

\* `wg.Wait(); defer close(errC)` and the final select over errC.
MDoneReturnNoErrCheck ==
  /\ Running /\ mainPc = "doneWait"
  /\ WaitGroupDone
  /\ ret' = [res |-> Result(mFound, mInspected, mProcessed), err |-> NilErr]
  /\ errCClosed' = TRUE
  /\ mainPc' = "returned"
  /\ UNCHANGED << runVars, optVars, orgVars, cacheVars, inputs, ctxDone, repoC, repoCClosed, errC, doneC, counters,
                  workerVars, producerVars, mErr, panicked, history >>

MDoneReturn ==
  /\ Running /\ mainPc = "doneWait"
  /\ WaitGroupDone
  /\ IF errC # <<>>
       THEN /\ ret' = [res |-> ZeroResult, err |-> Head(errC)]
            /\ errC' = Tail(errC)
       ELSE /\ ret' = [res |-> Result(mFound, mInspected, mProcessed),
                       err |-> NilErr]
            /\ UNCHANGED errC
  /\ errCClosed' = TRUE
  /\ mainPc' = "returned"
  /\ UNCHANGED << runVars, optVars, orgVars, cacheVars, inputs, ctxDone, repoC, repoCClosed, doneC, counters,
                  workerVars, producerVars, mErr, panicked, history >>

Next ==
  \/ Cancel
  \/ MStart
  \/ \E w \in Workers : WRecv(w)
  \/ \E w \in Workers : WSelect(w)
  \/ \E w \in Workers : WProcess(w)
  \/ \E w \in Workers : WSendErr(w)
  \/ PInspect
  \/ PSelect
  \/ PSend
  \/ PCloseDone
  \/ PCloseRepo
  \/ MRecvErr
  \/ MErrCloseDone
  \/ MErrReturn
  \/ MCtxDone
  \/ MCtxWait
  \/ MCtxCloseDone
  \/ MDone
  \/ MDoneReturn

Spec == Init /\ [][Next]_vars

\* ------------------------------------------------- the command (main.go)
\* RunE parses --search-filter before it calls RunForOrganization; a parse
\* error is returned and nothing runs.
FParse ==
  /\ Running /\ mainPc = "parse"
  /\ IF parseSearchFilterInErr(filterIn) # NilErr
       THEN /\ ret' = [res |-> ZeroResult, err |-> parseSearchFilterInErr(filterIn)]
            /\ mainPc' = "parseFailed"
       ELSE /\ mainPc' = "start"
            /\ UNCHANGED ret
  /\ UNCHANGED << runVars, optVars, orgVars, cacheVars, inputs, ctxDone, chans, counters, workerVars, producerVars,
                  mErr, panicked, history >>

FilterInit ==
  /\ OrgIdle /\ OptIdle /\ RunIdle
  /\ CacheIdle
  /\ repoPages \in FilterPages
  /\ nOfWorkers = 1
  /\ filterIn \in AllConds
  /\ InitRest("parse")

FilterNext == FParse \/ Next

FilterSpec == FilterInit /\ [][FilterNext]_vars

\* ------------------------------------------------ RunForOrganization
AllPages == -1
defaultPerPage == 100
maxPerPage == 1000

\* The pagination options the entry point is called with.
PerPages == {-1, 0, 50, maxPerPage + 1}
Pages == {-2, AllPages, 0, 3}

ValidationErr(field) == [kind |-> "validation", repo |-> 0, cause |-> field]
FetchErr == [kind |-> "fetching", repo |-> 0, cause |-> "none"]
PagesErr == [kind |-> "pages", repo |-> 0, cause |-> "none"]

\* The per_page part of the request path; 0 when PerPage is rejected.
PerPageParam(perPage) ==
  IF perPage = 0 \/ perPage > maxPerPage THEN defaultPerPage
  ELSE IF perPage > 0 THEN perPage
  ELSE 0

\* A Validate that lets a negative PerPage fall back to the default.
ValidateLenient ==
  /\ Running /\ mainPc = "validate"
  /\ LET perPage == IF searchOpts.PerPage < 0 THEN defaultPerPage
                    ELSE PerPageParam(searchOpts.PerPage)
         page == searchOpts.Page
     IN IF page # AllPages /\ page < 0
          THEN /\ ret' = [res |-> ZeroResult, err |-> ValidationErr("Page")]
               /\ mainPc' = "returned"
               /\ UNCHANGED << target, ghArgs >>
          ELSE /\ target' = Target(perPage, IF page > 0 THEN page ELSE 0)
               /\ ghArgs' = IF page = AllPages THEN {"--paginate"} ELSE {}
               /\ mainPc' = "list"
               /\ UNCHANGED ret
  /\ UNCHANGED << runVars, optVars, cacheVars, inputs, searchOpts, ghCalls, numberOfWorkers,
                  ctxDone, chans, counters, workerVars, producerVars, mErr,
                  panicked, history >>

\* The request is put together from SearchOptions; a negative PerPage, or a
\* Page that is neither AllPages nor positive nor zero, returns at once.
Validate ==
  /\ Running /\ mainPc = "validate"
  /\ LET perPage == searchOpts.PerPage
         page == searchOpts.Page
     IN IF ~(perPage = 0 \/ perPage > maxPerPage) /\ ~(perPage > 0)
          THEN /\ ret' = [res |-> ZeroResult, err |-> ValidationErr("PerPage")]
               /\ mainPc' = "returned"
               /\ UNCHANGED << target, ghArgs >>
          ELSE IF page # AllPages /\ ~(page > 0) /\ page # 0
            THEN /\ ret' = [res |-> ZeroResult, err |-> ValidationErr("Page")]
                 /\ mainPc' = "returned"
                 /\ UNCHANGED << target, ghArgs >>
            ELSE /\ target' = Target(PerPageParam(perPage),
                                     IF page # AllPages /\ page > 0 THEN page ELSE 0)
                 /\ ghArgs' = IF page = AllPages THEN {"--paginate"} ELSE {}
                 /\ mainPc' = "list"
                 /\ UNCHANGED ret
  /\ UNCHANGED << runVars, optVars, cacheVars, inputs, searchOpts, ghCalls, numberOfWorkers,
                  ctxDone, chans, counters, workerVars, producerVars, mErr,
                  panicked, history >>

\* gh is run and its output split into pages; either may fail, and
\* otherwise the pipeline is entered with the pages listed.
List ==
  /\ Running /\ mainPc = "list"
  /\ ghCalls' = ghCalls + 1
  /\ \E outcome \in {"fetchFailed", "pagesFailed", "ok"} :
       CASE outcome = "fetchFailed" ->
              /\ ret' = [res |-> ZeroResult, err |-> FetchErr]
              /\ mainPc' = "returned"
         [] outcome = "pagesFailed" ->
              /\ ret' = [res |-> ZeroResult, err |-> PagesErr]
              /\ mainPc' = "returned"
         [] outcome = "ok" ->
              /\ mainPc' = "workers"
              /\ UNCHANGED ret
  /\ UNCHANGED << runVars, optVars, cacheVars, inputs, searchOpts, target, ghArgs,
                  numberOfWorkers, ctxDone, chans, counters, workerVars,
                  producerVars, mErr, panicked, history >>

defaultNumberOfWorkers == 10

\* A selection that pays no attention to Options.NumberOfWorkers.
SelectWorkersDefaultOnly ==
  /\ Running /\ mainPc = "workers"
  /\ nOfWorkers' = defaultNumberOfWorkers
  /\ wPc' = [w \in 1..nOfWorkers' |-> "idle"]
  /\ wRepo' = [w \in 1..nOfWorkers' |-> 0]
  /\ wErr' = [w \in 1..nOfWorkers' |-> NilErr]
  /\ mainPc' = "start"
  /\ UNCHANGED << runVars, optVars, orgVars, cacheVars, repoPages, filterIn, ctxDone, chans,
                  counters, producerVars, mErr, ret, panicked, history >>

\* nOfWorkers is Options.NumberOfWorkers when positive and the default
\* otherwise; runForReposConcurrently is entered with that many workers.
SelectWorkers ==
  /\ Running /\ mainPc = "workers"
  /\ nOfWorkers' = IF numberOfWorkers > 0 THEN numberOfWorkers
                   ELSE defaultNumberOfWorkers
  /\ wPc' = [w \in 1..nOfWorkers' |-> "idle"]
  /\ wRepo' = [w \in 1..nOfWorkers' |-> 0]
  /\ wErr' = [w \in 1..nOfWorkers' |-> NilErr]
  /\ mainPc' = "start"
  /\ UNCHANGED << runVars, optVars, orgVars, cacheVars, repoPages, filterIn, ctxDone, chans,
                  counters, producerVars, mErr, ret, panicked, history >>

OrgInit ==
  /\ OptIdle /\ CacheIdle /\ RunIdle
  /\ searchOpts \in [PerPage : PerPages, Page : Pages]
  /\ target = Target(0, 0) /\ ghArgs = {} /\ ghCalls = 0
  /\ numberOfWorkers = 1
  /\ repoPages \in FilterPages
  /\ nOfWorkers = defaultNumberOfWorkers
  /\ filterIn = ""
  /\ InitRest("validate")

OrgNext == Validate \/ List \/ SelectWorkers \/ Next

OrgSpec == OrgInit /\ [][OrgNext]_vars

\* The listing succeeded; what is left of RunForOrganization is the choice
\* of the number of workers and the pipeline.
PoolWorkers == {-1, 0} \cup 1..MaxWorkers
PoolPages == { ps \in RepoPages : Len(ps) <= 1 }
\* With the default pool the listing is a single page of at most one
\* repository.
DefaultPoolPages == { ps \in PoolPages : SumLen(ps) <= 1 }

PoolInit ==
  /\ OptIdle /\ CacheIdle /\ RunIdle
  /\ searchOpts = [PerPage |-> 0, Page |-> 0]
  /\ target = Target(defaultPerPage, 0) /\ ghArgs = {} /\ ghCalls = 1
  /\ numberOfWorkers \in PoolWorkers
  /\ repoPages \in IF numberOfWorkers > 0 THEN PoolPages ELSE DefaultPoolPages
  /\ nOfWorkers = defaultNumberOfWorkers
  /\ filterIn = ""
  /\ InitRest("workers")

PoolNext == SelectWorkers \/ Next

PoolSpec == PoolInit /\ [][PoolNext]_vars

\* Goroutines are scheduled fairly: a step that stays enabled is taken.
\* The caller is never obliged to cancel.
WorkerStep(w) ==
  w \in Workers /\ (WRecv(w) \/ WSelect(w) \/ WProcess(w) \/ WSendErr(w))

Fairness ==
  /\ WF_vars(MStart)
  /\ \A w \in 1..MaxWorkers : WF_vars(WorkerStep(w))
  /\ WF_vars(PInspect \/ PSelect \/ PSend \/ PCloseDone \/ PCloseRepo)
  /\ WF_vars(MRecvErr \/ MErrCloseDone \/ MErrReturn \/ MCtxDone \/ MCtxWait
             \/ MCtxCloseDone \/ MDone \/ MDoneReturn)

FairSpec == Init /\ [][Next]_vars /\ Fairness

TypeOK ==
  /\ mainPc \in {"validate", "list", "workers", "exited", "parse", "parseFailed", "start", "select", "errClose", "errWait", "ctxWait",
                 "ctxClose", "doneWait", "returned"}
  /\ pPc \in {"idle", "loop", "select", "send", "closeRepo", "done"}
  /\ \A w \in Workers :
       wPc[w] \in {"idle", "recv", "select", "processing", "senderr", "exit"}
  /\ Len(repoC) <= nOfWorkers /\ Len(errC) <= nOfWorkers

\* ============================================ processRepository, the cache
\* Concurrent calls of processRepository over one reposDir (workers of one
\* run, or RunForRepository calls of one process).
NumCallers == 2
MaxClock == 1

Callers == 1..NumCallers

\* time.Now().Format("02T15_04_05.999999999") at the instants of the model:
\* day, time of day and the nanoseconds with trailing zeros dropped.
TimeStamps ==
  << "02T15_04_05", "02T15_04_05.000000001", "02T15_04_05.000000002" >>
Format(t) == TimeStamps[t + 1]

\* strings.Join over strings written as sequences of characters.
RECURSIVE Join(_, _)
Join(elems, sep) ==
  IF elems = << >> THEN << >>
  ELSE IF Len(elems) = 1 THEN elems[1]
  ELSE elems[1] \o << sep >> \o Join(Tail(elems), sep)

\* The first 16 hex digits of the MD5 sum, taken as free of collisions over
\* the byte strings of the model: the digest is a tag on the bytes hashed.
Md5Hex16(bytes) == << "md5" >> \o bytes

hashCloningSubset(cs) == Md5Hex16(Join(cs, "|"))

\* opts.CloningSubset: none, two entries in both orders, and one entry that
\* holds the separator.
CloningSubsets ==
  { << >>,
    << << "a" >>, << "b" >> >>,
    << << "b" >>, << "a" >> >>,
    << << "a", "|", "b" >> >> }

\* opts.CloneCacheKey: nil, a function returning "", a function returning "k".
CacheKeyFuncs == {"nil", "empty", "k"}
CloneCacheKey(f) == IF f = "k" THEN "k" ELSE ""

\* Repository.Name is the full_name, owner/repo.
RepoNames == {"org/a", "org/b"}

\* What one call is given.  An empty repository has no branch to speak of
\* and the subset plays no part for it.
CallerInputs ==
  { in \in [Name : RepoNames, Size : {0, 1}, DefaultBranchName : {"", "main"},
            CloneCacheKey : CacheKeyFuncs, CloningSubset : CloningSubsets] :
      in.Size = 0 => (in.DefaultBranchName = "main" /\ in.CloningSubset = << >>) }

\* A path under reposDir, by the parts it is concatenated from:
\* name "-" key ["-" hash] ["_" suffix].  NoDir is the empty path.
Dir(name, key, hashed, hash, suffix) ==
  [name |-> name, key |-> key, hashed |-> hashed, hash |-> hash,
   suffix |-> suffix]
NoDir == Dir("", "", FALSE, << >>, 0)
\* reposDir/org, which MkdirAll creates above every clone directory.
OrgDir == Dir("org", "", FALSE, << >>, 0)
Parent(p) == OrgDir

\* cloneDirName and cloneDir
CloneDir(in, cacheKey) ==
  Dir(in.Name, cacheKey, Len(in.CloningSubset) > 0,
      IF Len(in.CloningSubset) > 0 THEN hashCloningSubset(in.CloningSubset)
                                   ELSE << >>,
      0)

\* The sequence drawn by call c: distinct calls draw distinct sequences.
randSequence(c) == c

\* repoDir := cloneDir + "_" + randSequence(9)
RepoDir(cloneDir, c) ==
  Dir(cloneDir.name, cloneDir.key, cloneDir.hashed, cloneDir.hash,
      randSequence(c))

\* The file system: fs maps each existing directory to what it holds.
Put(f, p, v) == [q \in DOMAIN f \cup {p} |-> IF q = p THEN v ELSE f[q]]
Exists(p) == p \in DOMAIN fs
Under(q, p) == q = p \/ (q \notin {OrgDir, NoDir} /\ Parent(q) = p)

MkdirAll(f, p) ==
  LET g == IF Parent(p) \in DOMAIN f THEN f ELSE Put(f, Parent(p), {})
  IN  IF p \in DOMAIN g THEN g ELSE Put(g, p, {})

RemoveNothing(f, p) == f

RemoveAll(f, p) == [q \in {x \in DOMAIN f : ~Under(x, p)} |-> f[q]]

NeverEmptyRepo(in) == FALSE

IsEmptyRepo(in) == in.Size = 0

alwaysReturnDirectly(cacheKey) == TRUE

shouldReturnDirectly(cacheKey) == cacheKey = ""

cacheFrame == << runVars, optVars, orgVars, inputs, ctxDone, chans, counters, workerVars, producerVars,
                mainVars, panicked, history >>

\* The pipeline is not running.
PipelineIdle ==
  /\ OrgIdle /\ OptIdle
  /\ repoPages = << >> /\ nOfWorkers = 1 /\ filterIn = ""
  /\ InitRest("idle")

CacheInit ==
  /\ PipelineIdle /\ RunIdle
  /\ clock = 0 /\ fs = << >>
  /\ callers \in { f \in [Callers -> CallerInputs] : f[1].Name = "org/a" }
  /\ cPc = [c \in Callers |-> "start"]
  /\ cCloneDir = [c \in Callers |-> NoDir]
  /\ cRepoDir = [c \in Callers |-> NoDir]
  /\ cDirect = [c \in Callers |-> FALSE]
  /\ cErr = [c \in Callers |-> "unset"]
  /\ cIsEmpty = [c \in Callers |-> "unset"]
  /\ cTouched = [c \in Callers |-> FALSE]
  /\ cStat = [c \in Callers |-> "none"]
  /\ tornDown = FALSE

\* Time passes.
Tick ==
  /\ clock < MaxClock
  /\ clock' = clock + 1
  /\ UNCHANGED << cacheFrame, tornDown, cStat, fs, callers, cPc, cCloneDir, cRepoDir, cDirect,
                  cErr, cIsEmpty, cTouched >>

\* processRepository up to the Stat of cloneRepositoryOrGetFromCache: an
\* empty repository goes to the Processor at once; otherwise the cache key
\* is taken from opts or from the clock and cloneDir is put together.
ProcessStart(c) ==
  /\ cPc[c] = "start"
  /\ IF IsEmptyRepo(callers[c])
       THEN /\ cPc' = [cPc EXCEPT ![c] = "processEmpty"]
            /\ UNCHANGED << cDirect, cCloneDir >>
       ELSE LET cacheKey == CloneCacheKey(callers[c].CloneCacheKey)
            IN  /\ cDirect' = [cDirect EXCEPT ![c] = shouldReturnDirectly(cacheKey)]
                /\ cCloneDir' =
                     [cCloneDir EXCEPT ![c] =
                        CloneDir(callers[c],
                                 IF shouldReturnDirectly(cacheKey)
                                   THEN Format(clock) ELSE cacheKey)]
                /\ cPc' = [cPc EXCEPT ![c] = "stat"]
  /\ UNCHANGED << cacheFrame, tornDown, cStat, clock, fs, callers, cRepoDir, cErr, cIsEmpty,
                  cTouched >>

\* `processor(processCtx, repo.Name, true, ...)` for an empty repository
ProcessEmpty(c) ==
  /\ cPc[c] = "processEmpty"
  /\ cIsEmpty' = [cIsEmpty EXCEPT ![c] = "true"]
  /\ \E out \in {"nil", "processor"} : cErr' = [cErr EXCEPT ![c] = out]
  /\ cPc' = [cPc EXCEPT ![c] = "done"]
  /\ UNCHANGED << cacheFrame, tornDown, cStat, clock, fs, callers, cCloneDir, cRepoDir,
                  cDirect, cTouched >>

\* A Stat after which the clone would run whether or not the directory is there.
StatAlwaysMiss(c) ==
  /\ cPc[c] = "stat"
  /\ cPc' = [cPc EXCEPT ![c] = "mkdir"]
  /\ cStat' = [cStat EXCEPT ![c] = IF Exists(cCloneDir[c]) THEN "hit" ELSE "miss"]
  /\ cTouched' = [cTouched EXCEPT ![c] = TRUE]
  /\ UNCHANGED << cacheFrame, tornDown, clock, fs, callers, cCloneDir, cRepoDir,
                  cDirect, cErr, cIsEmpty >>

\* os.Stat(cloneDir): the directory is there (a hit) or not (a miss).
Stat(c) ==
  /\ cPc[c] = "stat"
  /\ cPc' = [cPc EXCEPT ![c] = IF Exists(cCloneDir[c]) THEN "return" ELSE "mkdir"]
  /\ cStat' = [cStat EXCEPT ![c] = IF Exists(cCloneDir[c]) THEN "hit" ELSE "miss"]
  /\ cTouched' = [cTouched EXCEPT ![c] = TRUE]
  /\ UNCHANGED << cacheFrame, tornDown, clock, fs, callers, cCloneDir, cRepoDir,
                  cDirect, cErr, cIsEmpty >>

\* os.MkdirAll(cloneDir, os.ModePerm)
Mkdir(c) ==
  /\ cPc[c] = "mkdir"
  /\ fs' = MkdirAll(fs, cCloneDir[c])
  /\ cPc' = [cPc EXCEPT ![c] = "init"]
  /\ UNCHANGED << cacheFrame, tornDown, cStat, clock, callers, cCloneDir, cRepoDir, cDirect,
                  cErr, cIsEmpty, cTouched >>

\* A command of cloneRepository run in cloneDir: it succeeds, leaving `tag`
\* in the directory, when `ok`; otherwise cloneRepository returns its error.
GitStep(c, ok, tag, next) ==
  /\ IF ok
       THEN /\ fs' = Put(fs, cCloneDir[c], fs[cCloneDir[c]] \cup {tag})
            /\ cPc' = [cPc EXCEPT ![c] = next]
            /\ UNCHANGED cErr
       ELSE /\ cPc' = [cPc EXCEPT ![c] = "cleanup"]
            /\ cErr' = [cErr EXCEPT ![c] = "clone"]
            /\ UNCHANGED fs
  /\ UNCHANGED << cacheFrame, tornDown, cStat, clock, callers, cCloneDir, cRepoDir, cDirect,
                  cIsEmpty, cTouched >>

\* The directory is there and holds what the command needs.
Holds(d, tags) == Exists(d) /\ tags \subseteq fs[d]

\* `git init`
GitInit(c) ==
  /\ cPc[c] = "init"
  /\ GitStep(c, Exists(cCloneDir[c]), "init", "remote")

\* `git remote add origin`: fails when the remote is already there.
GitRemoteAdd(c) ==
  /\ cPc[c] = "remote"
  /\ GitStep(c, Holds(cCloneDir[c], {"init"}) /\ "origin" \notin fs[cCloneDir[c]],
             "origin",
             IF Len(callers[c].CloningSubset) > 0 THEN "sparse" ELSE "fetch")

\* `git config core.sparseCheckout true` and fillLines
SparseCheckout(c) ==
  /\ cPc[c] = "sparse"
  /\ GitStep(c, Holds(cCloneDir[c], {"init"}), "sparse", "fetch")

\* The default-branch check and `git fetch origin <branch>`; the fetch may
\* fail whatever the directory holds.
GitFetch(c) ==
  /\ cPc[c] = "fetch"
  /\ IF callers[c].DefaultBranchName = ""
       THEN /\ cPc' = [cPc EXCEPT ![c] = "cleanup"]
            /\ cErr' = [cErr EXCEPT ![c] = "noDefaultBranch"]
            /\ UNCHANGED << cacheFrame, tornDown, cStat, clock, fs, callers, cCloneDir,
                            cRepoDir, cDirect, cIsEmpty, cTouched >>
       ELSE \E fetched \in BOOLEAN :
              GitStep(c, fetched /\ Holds(cCloneDir[c], {"init", "origin"}),
                      "fetched", "checkout")

\* `git checkout <branch>`
GitCheckout(c) ==
  /\ cPc[c] = "checkout"
  /\ GitStep(c, Holds(cCloneDir[c], {"init", "fetched"}), "checkout", "return")

\* cloneRepository returned an error: os.RemoveAll(cloneDir); return "", err
CloneFailed(c) ==
  /\ cPc[c] = "cleanup"
  /\ fs' = RemoveAll(fs, cCloneDir[c])
  /\ cPc' = [cPc EXCEPT ![c] = "done"]
  /\ UNCHANGED << cacheFrame, tornDown, cStat, clock, callers, cCloneDir, cRepoDir, cDirect,
                  cErr, cIsEmpty, cTouched >>

\* The end of cloneRepositoryOrGetFromCache: cloneDir itself, or a copy of
\* it made by `cp -r` under a randomly suffixed name.
Return(c) ==
  /\ cPc[c] = "return"
  /\ IF cDirect[c]
       THEN /\ cRepoDir' = [cRepoDir EXCEPT ![c] = cCloneDir[c]]
            /\ cPc' = [cPc EXCEPT ![c] = "processing"]
            /\ UNCHANGED << fs, cErr >>
       ELSE LET repoDir == RepoDir(cCloneDir[c], c)
            IN  IF Exists(cCloneDir[c])
                  THEN /\ fs' = Put(fs, repoDir, fs[cCloneDir[c]])
                       /\ cRepoDir' = [cRepoDir EXCEPT ![c] = repoDir]
                       /\ cPc' = [cPc EXCEPT ![c] = "processing"]
                       /\ UNCHANGED cErr
                  ELSE /\ fs' = RemoveAll(fs, repoDir)
                       /\ cErr' = [cErr EXCEPT ![c] = "copy"]
                       /\ cPc' = [cPc EXCEPT ![c] = "done"]
                       /\ UNCHANGED cRepoDir
  /\ UNCHANGED << cacheFrame, tornDown, cStat, clock, callers, cCloneDir, cDirect, cIsEmpty,
                  cTouched >>

\* A Processor call whose release would run only after a nil error.
ProcessNoDefer(c) ==
  /\ cPc[c] = "processing"
  /\ cIsEmpty' = [cIsEmpty EXCEPT ![c] = "false"]
  /\ \E out \in {"nil", "processor"} :
       /\ cErr' = [cErr EXCEPT ![c] = out]
       /\ cPc' = [cPc EXCEPT ![c] = IF out = "nil" THEN "release" ELSE "done"]
  /\ UNCHANGED << cacheFrame, tornDown, cStat, clock, fs, callers, cCloneDir, cRepoDir,
                  cDirect, cTouched >>

\* `processor(processCtx, repo.Name, false, ...)`; the deferred
\* os.RemoveAll(repoDir) is still to run whatever it returns.
Process(c) ==
  /\ cPc[c] = "processing"
  /\ cIsEmpty' = [cIsEmpty EXCEPT ![c] = "false"]
  /\ \E out \in {"nil", "processor"} : cErr' = [cErr EXCEPT ![c] = out]
  /\ cPc' = [cPc EXCEPT ![c] = "release"]
  /\ UNCHANGED << cacheFrame, tornDown, cStat, clock, fs, callers, cCloneDir, cRepoDir,
                  cDirect, cTouched >>

\* `defer os.RemoveAll(repoDir)`
Release(c) ==
  /\ cPc[c] = "release"
  /\ fs' = RemoveAll(fs, cRepoDir[c])
  /\ cPc' = [cPc EXCEPT ![c] = "done"]
  /\ UNCHANGED << cacheFrame, tornDown, cStat, clock, callers, cCloneDir, cRepoDir, cDirect,
                  cErr, cIsEmpty, cTouched >>

CacheNext ==
  \/ Tick
  \/ \E c \in Callers :
       \/ ProcessStart(c) \/ ProcessEmpty(c)
       \/ Stat(c) \/ Mkdir(c)
       \/ GitInit(c) \/ GitRemoteAdd(c) \/ SparseCheckout(c)
       \/ GitFetch(c) \/ GitCheckout(c)
       \/ CloneFailed(c) \/ Return(c)
       \/ Process(c) \/ Release(c)

CacheSpec == CacheInit /\ [][CacheNext]_vars

\* ------------------------------------------- two runs in one process
\* A RunForOrganization call of the same process returns while the calls
\* above are under way: its `defer os.RemoveAll(reposDir)` removes the
\* package-level reposDir with everything under it.
Teardown ==
  /\ ~tornDown
  /\ tornDown' = TRUE
  /\ fs' = << >>
  /\ UNCHANGED << cacheFrame, clock, callers, cPc, cCloneDir, cRepoDir,
                  cDirect, cErr, cIsEmpty, cTouched, cStat >>

\* The calls of the other run work on one repository with a default branch.
RunsInit ==
  /\ CacheInit
  /\ \A c \in Callers :
       callers[c].Name = "org/a" /\ callers[c].DefaultBranchName = "main"

RunsNext == Teardown \/ CacheNext

RunsSpec == RunsInit /\ [][RunsNext]_vars

\* ------------------------------------- RunForOrganization to its exit
\* The full names of the repositories of a listing, by their position.
FullNames == << "org/a", "org/b", "org/c", "org/d", "org/e" >>

\* The clone directory of a worker's processRepository call for r.
WorkerCloneDir(r) ==
  LET cacheKey == CloneCacheKey(opts.CloneCacheKey)
  IN  CloneDir([Name |-> FullNames[r.Name], CloningSubset |-> opts.CloningSubset],
               IF shouldReturnDirectly(cacheKey) THEN Format(clock) ELSE cacheKey)

\* What a finished clone holds.
CloneTags ==
  {"init", "origin", "fetched", "checkout"}
    \cup (IF Len(opts.CloningSubset) > 0 THEN {"sparse"} ELSE {})

\* The directories a processRepository call leaves behind.  An empty
\* repository touches nothing; a failed clone and a directory returned
\* directly are removed, the owner directory of MkdirAll stays; with an
\* explicit key the canonical clone stays and the copy is removed.
AfterProcess(f, r, out) ==
  IF r.Size = 0 THEN f
  ELSE LET cloneDir == WorkerCloneDir(r)
           made == MkdirAll(f, cloneDir)
       IN  IF out \in {"clone", "noDefaultBranch"}
                \/ shouldReturnDirectly(CloneCacheKey(opts.CloneCacheKey))
             THEN RemoveAll(made, cloneDir)
             ELSE Put(made, cloneDir, CloneTags)

\* A worker's processRepository call with what it does to the cache.
WProcessCloning(w) ==
  /\ Running /\ wPc[w] = "processing"
  /\ \E out \in ProcessOutcomes(Repos[wRepo[w]]) :
       /\ invoked' = IF out \in {"ok", "processor"}
                       THEN [invoked EXCEPT ![wRepo[w]] = @ + 1]
                       ELSE invoked
       /\ fs' = AfterProcess(fs, Repos[wRepo[w]], out)
       /\ IF IsAbsorbed(out)
            THEN /\ wPc' = [wPc EXCEPT ![w] = "recv"]
                 /\ wRepo' = [wRepo EXCEPT ![w] = 0]
                 /\ UNCHANGED wErr
            ELSE /\ wPc' = [wPc EXCEPT ![w] = "senderr"]
                 /\ wErr' = [wErr EXCEPT ![w] = WrapErr(wRepo[w], out)]
                 /\ UNCHANGED wRepo
  /\ UNCHANGED << runVars, optVars, orgVars, inputs, ctxDone, chans, counters,
                  producerVars, mainVars, panicked, errSent, errStop, late,
                  skipped, clock, callers, cPc, cCloneDir, cRepoDir, cDirect,
                  cErr, cIsEmpty, cTouched, cStat, tornDown >>

\* An exit that leaves the cache root in place.
OrgExitKeepCache ==
  /\ Running /\ mainPc = "returned"
  /\ mainPc' = "exited"
  /\ UNCHANGED << runVars, optVars, orgVars, cacheVars, inputs, ctxDone, chans,
                  counters, workerVars, producerVars, mErr, ret, panicked,
                  history >>

\* RunForOrganization returns: the deferred os.RemoveAll(reposDir) runs.
OrgExit ==
  /\ Running /\ mainPc = "returned"
  /\ fs' = << >>
  /\ mainPc' = "exited"
  /\ UNCHANGED << runVars, optVars, orgVars, inputs, ctxDone, chans, counters,
                  workerVars, producerVars, mErr, ret, panicked, history,
                  clock, callers, cPc, cCloneDir, cRepoDir, cDirect, cErr,
                  cIsEmpty, cTouched, cStat, tornDown >>

ExitSearchOptions == [PerPage : {-1, 0}, Page : {0}]
ExitOptions ==
  [CloneCacheKey : CacheKeyFuncs, CloningSubset : {<< >>, << <<"a">> >>}]

ExitInit ==
  /\ OptIdle /\ CacheIdle
  /\ searchOpts \in ExitSearchOptions
  /\ target = Target(0, 0) /\ ghArgs = {} /\ ghCalls = 0
  /\ numberOfWorkers \in 1..MaxWorkers
  /\ opts \in ExitOptions
  /\ repoName = << >> /\ rfrPc = "idle" /\ rfrErr = RfrNil /\ rfrCmds = 0
  /\ repoPages \in PoolPages
  /\ nOfWorkers = defaultNumberOfWorkers
  /\ filterIn = ""
  /\ InitRest("validate")

ExitNext ==
  \/ Validate \/ List \/ SelectWorkers
  \/ Cancel
  \/ MStart
  \/ \E w \in Workers : WRecv(w)
  \/ \E w \in Workers : WSelect(w)
  \/ \E w \in Workers : WProcessCloning(w)
  \/ \E w \in Workers : WSendErr(w)
  \/ PInspect \/ PSelect \/ PSend \/ PCloseDone \/ PCloseRepo
  \/ MRecvErr \/ MErrCloseDone \/ MErrReturn
  \/ MCtxDone \/ MCtxWait \/ MCtxCloseDone
  \/ MDone \/ MDoneReturn
  \/ OrgExit

ExitSpec == ExitInit /\ [][ExitNext]_vars

\* --------------------------------------------------- RunForRepository
\* Names as sequences of characters: no slash, one slash, two slashes.
RfrNames ==
  { << "a" >>, << "o", "/", "a" >>, << "o", "/", "a", "/", "b" >> }

\* strings.Count for a separator of one character.
RECURSIVE Count(_, _)
Count(str, sep) ==
  IF str = << >> THEN 0
  ELSE (IF Head(str) = sep THEN 1 ELSE 0) + Count(Tail(str), sep)

RfrNameErr == [kind |-> "name", repo |-> "", cause |-> "none"]
RfrFetchErr == [kind |-> "fetching", repo |-> "", cause |-> "none"]
RfrUnmarshalErr == [kind |-> "unmarshaling", repo |-> "", cause |-> "none"]

\* The processRepository call RunForRepository makes.
RfrCall == 1

\* strings.Count(repoName, "/") > 1 returns before anything is run.
RfrCheckName ==
  /\ rfrPc = "start"
  /\ IF Count(repoName, "/") > 1
       THEN rfrErr' = RfrNameErr /\ rfrPc' = "returned"
       ELSE rfrPc' = "fetch" /\ UNCHANGED rfrErr
  /\ UNCHANGED << optVars, orgVars, cacheVars, inputs, ctxDone, chans, counters,
                  workerVars, producerVars, mainVars, panicked, history, opts,
                  repoName, rfrCmds >>

\* gh api /repos/<name> and json.Unmarshal: either may fail, and otherwise
\* processRepository is called with the repository read.
RfrFetch ==
  /\ rfrPc = "fetch"
  /\ rfrCmds' = rfrCmds + 1
  /\ \E outcome \in {"fetchFailed", "unmarshalFailed", "ok"} :
       CASE outcome = "fetchFailed" ->
              rfrErr' = RfrFetchErr /\ rfrPc' = "returned" /\ UNCHANGED cPc
         [] outcome = "unmarshalFailed" ->
              rfrErr' = RfrUnmarshalErr /\ rfrPc' = "returned" /\ UNCHANGED cPc
         [] outcome = "ok" ->
              /\ rfrPc' = "process"
              /\ cPc' = [cPc EXCEPT ![RfrCall] = "start"]
              /\ UNCHANGED rfrErr
  /\ UNCHANGED << optVars, orgVars, inputs, ctxDone, chans, counters, workerVars,
                  producerVars, mainVars, panicked, history, opts, repoName,
                  clock, fs, callers, cCloneDir, cRepoDir, cDirect, cErr,
                  cIsEmpty, cTouched, cStat, tornDown >>

\* A return that absorbs the missing default branch as the pipeline does.
RfrReturnAbsorbing ==
  /\ rfrPc = "process" /\ cPc[RfrCall] = "done"
  /\ rfrErr' = IF cErr[RfrCall] \in {"nil", "noDefaultBranch"} THEN RfrNil
               ELSE WrapErr(callers[RfrCall].Name, cErr[RfrCall])
  /\ rfrPc' = "returned"
  /\ UNCHANGED << optVars, orgVars, cacheVars, inputs, ctxDone, chans, counters,
                  workerVars, producerVars, mainVars, panicked, history, opts,
                  repoName, rfrCmds >>

\* processRepository has returned: its error, if any, is wrapped with the
\* name of the repository.
RfrReturn ==
  /\ rfrPc = "process" /\ cPc[RfrCall] = "done"
  /\ rfrErr' = IF cErr[RfrCall] = "nil" THEN RfrNil
               ELSE WrapErr(callers[RfrCall].Name, cErr[RfrCall])
  /\ rfrPc' = "returned"
  /\ UNCHANGED << optVars, orgVars, cacheVars, inputs, ctxDone, chans, counters,
                  workerVars, producerVars, mainVars, panicked, history, opts,
                  repoName, rfrCmds >>

\* No other call is under way: every call but RfrCall is one for an empty
\* repository that has returned.
RfrOther ==
  [Name |-> "org/b", Size |-> 0, DefaultBranchName |-> "main",
   CloneCacheKey |-> "nil", CloningSubset |-> << >>]

RepoInit ==
  /\ PipelineIdle
  /\ repoName \in RfrNames
  /\ rfrPc = "start" /\ rfrErr = RfrNil /\ rfrCmds = 0
  /\ clock = 0 /\ fs = << >> /\ tornDown = FALSE
  /\ callers \in { f \in [Callers -> CallerInputs] :
                     \A c \in Callers \ {RfrCall} : f[c] = RfrOther }
  /\ opts = [CloneCacheKey |-> callers[RfrCall].CloneCacheKey,
             CloningSubset |-> callers[RfrCall].CloningSubset]
  /\ cPc = [c \in Callers |-> IF c = RfrCall THEN "idle" ELSE "done"]
  /\ cCloneDir = [c \in Callers |-> NoDir]
  /\ cRepoDir = [c \in Callers |-> NoDir]
  /\ cDirect = [c \in Callers |-> FALSE]
  /\ cErr = [c \in Callers |-> IF c = RfrCall THEN "unset" ELSE "nil"]
  /\ cIsEmpty = [c \in Callers |-> IF c = RfrCall THEN "unset" ELSE "true"]
  /\ cTouched = [c \in Callers |-> FALSE]
  /\ cStat = [c \in Callers |-> "none"]

RepoNext == RfrCheckName \/ RfrFetch \/ RfrReturn \/ CacheNext

RepoSpec == RepoInit /\ [][RepoNext]_vars

\* ================================================================ claims
Returned == mainPc = "returned"
Names == 1..NumRepos
\* The record passed the filter chain.
Accepted(n) == MakeFilterIn(filterIn, Repos[n])
\* The record's clone sequence ends in errNoDefaultBranch.
NoBranch(n) == Repos[n].Size # 0 /\ Repos[n].DefaultBranchName = ""

RECURSIVE Invocations(_)
Invocations(n) == IF n = 0 THEN 0 ELSE invoked[n] + Invocations(n - 1)

\* C1: in every reachable state the counters satisfy
\* 0 <= Processed <= Inspected <= Found, and so does a returned Result.
CountersOrdered ==
  /\ 0 <= mProcessed /\ mProcessed <= mInspected /\ mInspected <= mFound
  /\ 0 <= ret.res.Processed /\ ret.res.Processed <= ret.res.Inspected
  /\ ret.res.Inspected <= ret.res.Found

\* The producer has passed a record, filtered another out and has records
\* left to inspect.
CountersOrderedWitness ==
  /\ 0 < mProcessed /\ mProcessed < mInspected /\ mInspected < mFound

\* C2: doneC is closed at most once: no close of an already-closed doneC is
\* reachable in any interleaving of producer, workers and top-level loop.
DoneClosedAtMostOnce == panicked # "close of closed channel"

\* C3: the producer never stays blocked forever on a full queue: it is never
\* waiting to send on a full repoC that no worker is left to drain.
ProducerNeverBlockedForever ==
  ~(pPc = "send" /\ Len(repoC) = nOfWorkers /\ \A w \in Workers : wPc[w] = "exit")

\* C4: when a worker put a fatal error on errC and the context was never
\* cancelled, the run returns one of those errors, wrapped with the name of
\* the repository that failed, and the zero Result.
FatalErrorReturned ==
  (Returned /\ ~ctxDone /\ errSent # <<>>) =>
    /\ ret.res = ZeroResult
    /\ ret.err.kind = "processing"
    /\ \E i \in 1..Len(errSent) : ret.err = errSent[i]
    /\ invoked[ret.err.repo] = IF ret.err.cause = "processor" THEN 1 ELSE 0

\* A run that was not cancelled returned after a worker failed.
FatalErrorReturnedWitness ==
  /\ Returned /\ ~ctxDone /\ errSent # <<>>
  /\ ret.err.kind = "processing" /\ mInspected = mFound

\* C5: a run never returns a nil error and a non-zero Result after records
\* were skipped because of the cancellation; it returns ctx.Err() with the
\* zero Result.
CancelledRunReturnsCtxErr ==
  (Returned /\ skipped # {}) => (ret.err = CtxErr /\ ret.res = ZeroResult)

\* C6: no send on a closed channel: errC is closed only when no worker can
\* still send on it, repoC only when the producer has finished.
NoSendOnClosed ==
  /\ panicked # "send on closed channel"
  /\ errCClosed => \A w \in Workers : wPc[w] = "exit"
  /\ repoCClosed => pPc = "done"

\* Both channels are closed after a worker has sent an error.
NoSendOnClosedWitness ==
  errCClosed /\ repoCClosed /\ errSent # <<>> /\ panicked = ""

\* C7: on every exit path all workers have terminated before the terminal
\* value is returned; no processing call is in flight at the return.
WorkersDoneAtReturn ==
  Returned => \A w \in Workers : wPc[w] = "exit"

\* The run returned on the error path with two workers, after a Processor
\* call had run to its end.
WorkersDoneAtReturnWitness ==
  /\ Returned /\ errStop /\ nOfWorkers = 2
  /\ \E n \in Names : invoked[n] = 1 /\ n # ret.err.repo

\* C8: errNoDefaultBranch never reaches errC, and a run without fatal error
\* and cancellation returns nil with every accepted record that has a
\* default branch processed once.
NoDefaultBranchAbsorbed ==
  /\ \A i \in 1..Len(errSent) : errSent[i].cause # "noDefaultBranch"
  /\ (Returned /\ ~ctxDone /\ errSent = <<>>) =>
       /\ ret.err = NilErr
       /\ \A n \in Names :
            invoked[n] = IF Accepted(n) /\ ~NoBranch(n) THEN 1 ELSE 0

\* A clean run over an accepted record without default branch and an
\* accepted record that was processed.
NoDefaultBranchAbsorbedWitness ==
  /\ Returned /\ ~ctxDone /\ errSent = <<>> /\ ret.err = NilErr
  /\ \E n \in Names : Accepted(n) /\ NoBranch(n)
  /\ \E n \in Names : invoked[n] = 1

\* C9: on a run that returns a nil error the Processor has run exactly once
\* for each record counted in Processed that did not hit NoDefaultBranch.
ProcessorOncePerProcessed ==
  (Returned /\ ret.err = NilErr) =>
    /\ \A n \in Names :
         invoked[n] = IF Accepted(n) /\ ~NoBranch(n) THEN 1 ELSE 0
    /\ (\A n \in Names : ~NoBranch(n)) =>
         Invocations(NumRepos) = ret.res.Processed

\* C10: once the top-level loop has taken an error and closed doneC the
\* producer enqueues no further record and no processing call starts for a
\* record enqueued after that.
StopsDispatchingAfterError ==
  [][errStop =>
       /\ Len(repoC') <= Len(repoC)
       /\ \A w \in Workers :
            (wPc[w] = "select" /\ wPc'[w] = "processing") => wRepo[w] \notin late
    ]_vars

\* ------------------------------------------------------- filter claims
\* The record is archived, a fork, or empty.
Excluded(r) == r.Archived \/ r.Fork \/ r.Size = 0
\* The record is on the work queue or in a worker's hands.
Dispatched(n) ==
  \/ \E i \in 1..Len(repoC) : repoC[i] = n
  \/ \E w \in Workers : wRepo[w] = n
\* The condition compiled and the run has started.
Parsed == mainPc \notin {"parse", "parseFailed"}

EmptyConditionRejected ==
  (filterIn = "" /\ mainPc # "parse") => mainPc = "parseFailed"

\* C13: the compiled predicate is fail-closed: a record whose evaluation
\* fails or yields a non-boolean is rejected (never enqueued, never
\* processed), and the evaluation aborts nothing: a run that was not
\* cancelled and had no processing error returns nil with every record
\* inspected.
FailClosed ==
  (filterIn \in CelConds /\ Parsed) =>
    /\ \A n \in Names :
         CelEval(filterIn, RepoMap(Repos[n])).kind # "bool" =>
           ~Accepted(n) /\ ~Dispatched(n) /\ invoked[n] = 0
    /\ (Returned /\ ~ctxDone /\ errSent = <<>>) =>
         ret.err = NilErr /\ ret.res.Inspected = NumRepos

\* Evaluation failed for the first record (no key Size) and the producer
\* went on to the second, archived one, which was processed.
FailClosedWitness ==
  /\ filterIn = "repo.archived || repo.Size" /\ Returned /\ ~ctxDone
  /\ NumRepos = 2 /\ ~Repos[1].Archived /\ Repos[2].Archived
  /\ invoked[1] = 0 /\ invoked[2] = 1
  /\ ret.err = NilErr /\ ret.res.Inspected = 2 /\ ret.res.Processed = 1

\* ------------------------------------------------------ dispatch claims
\* The places a record occupies: slots of the queue and workers' hands.
Holders(n) ==
  Cardinality({i \in 1..Len(repoC) : repoC[i] = n})
    + Cardinality({w \in Workers : wRepo[w] = n})

\* C20: the Processor runs at most once for each record and never in two
\* workers at once for the same record: a record is in at most one place
\* (a queue slot or one worker's hands), only after the producer enqueued
\* it, and is never dequeued again once its Processor call has run.
ProcessedAtMostOnce ==
  \A n \in Names :
    /\ invoked[n] <= 1
    /\ Holders(n) <= 1
    /\ n >= pPos => Holders(n) = 0 /\ invoked[n] = 0
    /\ invoked[n] = 1 =>
         /\ \A i \in 1..Len(repoC) : repoC[i] # n
         /\ \A w \in Workers :
              wRepo[w] = n => wPc[w] \notin {"select", "processing"}

\* Two workers are in processing calls at once, for different records,
\* after a third record's call has completed.
ProcessedAtMostOnceWitness ==
  /\ \E n \in Names : invoked[n] = 1
  /\ \E w1, w2 \in Workers :
       /\ w1 # w2 /\ wPc[w1] = "processing" /\ wPc[w2] = "processing"
       /\ wRepo[w1] # wRepo[w2]

\* --------------------------------------------------------- cache claims
\* The call was handed a directory by cloneRepositoryOrGetFromCache.
Acquired(c) == cRepoDir[c] # NoDir
SameRepo(c1, c2) == callers[c1].Name = callers[c2].Name
ExplicitKey(c) == CloneCacheKey(callers[c].CloneCacheKey) # ""

\* C14: a record of size 0 never reaches the clone sequence or the cache (no
\* file-system operation is run for it, no directory is named for it) and
\* its Processor call gets isEmpty = true; a record of another size that
\* reaches the Processor gets isEmpty = false.
EmptyNeverCloned ==
  \A c \in Callers :
    IF callers[c].Size = 0
      THEN /\ ~cTouched[c] /\ cCloneDir[c] = NoDir /\ cRepoDir[c] = NoDir
           /\ cPc[c] \in {"start", "processEmpty", "done"}
           /\ cIsEmpty[c] = IF cPc[c] = "done" THEN "true" ELSE "unset"
      ELSE /\ cIsEmpty[c] \in {"unset", "false"}
           /\ cPc[c] \in {"release"} => cIsEmpty[c] = "false"

\* The Processor has run for an empty repository while the other call holds
\* a clone of a non-empty one.
EmptyNeverClonedWitness ==
  \E c1, c2 \in Callers :
    /\ callers[c1].Size = 0 /\ cPc[c1] = "done" /\ cIsEmpty[c1] = "true"
    /\ callers[c2].Size # 0 /\ cPc[c2] = "release" /\ cIsEmpty[c2] = "false"
    /\ Exists(cRepoDir[c2])

\* C15: two calls for the same repository with the same explicit key are
\* never handed the same directory, and neither is handed the canonical
\* directory of the cache.
CopyIsolation ==
  \A c1, c2 \in Callers :
    (c1 # c2 /\ SameRepo(c1, c2) /\ ExplicitKey(c1) /\ ExplicitKey(c2)
       /\ Acquired(c1) /\ Acquired(c2)) =>
      /\ cRepoDir[c1] # cRepoDir[c2]
      /\ cRepoDir[c1] \notin {cCloneDir[c1], cCloneDir[c2]}

\* Both calls are in their Processor with copies of one canonical directory.
CopyIsolationWitness ==
  /\ SameRepo(1, 2) /\ ExplicitKey(1) /\ ExplicitKey(2)
  /\ cCloneDir[1] = cCloneDir[2] /\ Exists(cCloneDir[1])
  /\ cPc[1] = "processing" /\ cPc[2] = "processing"
  /\ Exists(cRepoDir[1]) /\ Exists(cRepoDir[2])

\* C16: without an explicit key every call synthesizes a key of its own, so
\* two calls for the same repository are never handed the same directory.
ExclusiveWithoutKey ==
  \A c1, c2 \in Callers :
    (c1 # c2 /\ SameRepo(c1, c2) /\ ~ExplicitKey(c1) /\ ~ExplicitKey(c2)
       /\ Acquired(c1) /\ Acquired(c2)) =>
      cRepoDir[c1] # cRepoDir[c2]

\* C17: for one repository and one cache key the cache directory name is
\* the same for equal subsets and different for different subsets.
NamingInjective ==
  \A c1, c2 \in Callers :
    (cCloneDir[c1] # NoDir /\ cCloneDir[c2] # NoDir /\ SameRepo(c1, c2)
       /\ cCloneDir[c1].key = cCloneDir[c2].key) =>
      ((callers[c1].CloningSubset = callers[c2].CloningSubset)
         <=> (cCloneDir[c1] = cCloneDir[c2]))

\* C18: after a successful acquire the release runs whatever the Processor
\* returns, it removes the directory the Processor was handed and nothing
\* else, and with an explicit key that directory is not the canonical one.
ReleaseRemovesExactly ==
  [][\A c \in Callers :
       /\ (cPc[c] = "processing" /\ cPc'[c] # "processing") =>
            cPc'[c] = "release"
       /\ (Acquired(c) /\ cPc[c] # "done" /\ cPc'[c] = "done") =>
            cPc[c] = "release"
       /\ (cPc[c] = "release" /\ cPc'[c] = "done") =>
            /\ DOMAIN fs' = DOMAIN fs \ {cRepoDir[c]}
            /\ \A q \in DOMAIN fs' : fs'[q] = fs[q]
            /\ ExplicitKey(c) => cRepoDir[c] # cCloneDir[c]
    ]_vars

\* The Processor failed on a copy, the copy is gone and the canonical
\* directory still holds the complete clone.
ReleaseRemovesExactlyWitness ==
  \E c \in Callers :
    /\ ExplicitKey(c) /\ cPc[c] = "done" /\ cErr[c] = "processor"
    /\ Acquired(c) /\ ~Exists(cRepoDir[c])
    /\ Holds(cCloneDir[c], {"checkout"})

\* The clone sequence or its default-branch check failed for the call.
AcquireFailed(c) == cPc[c] = "done" /\ cErr[c] \in {"clone", "noDefaultBranch"}

ProducerCompleted == pPos > NumRepos /\ pPc \in {"closeRepo", "done"}
RECURSIVE AcceptedUpTo(_)
AcceptedUpTo(n) ==
  IF n = 0 THEN 0 ELSE (IF Accepted(n) THEN 1 ELSE 0) + AcceptedUpTo(n - 1)

\* C21: a return is (Result, nil) or (zero Result, error), never counts
\* together with an error; the counts are returned only once the producer
\* has completed and no worker error was sent or is pending.
TerminalValue ==
  Returned =>
    /\ ret.err = NilErr \/ ret.res = ZeroResult
    /\ ret.err = NilErr =>
         /\ ret.res = Result(mFound, mInspected, mProcessed)
         /\ ProducerCompleted
         /\ errC = << >> /\ errSent = << >>
         /\ \A w \in Workers : wPc[w] = "exit"

\* Both kinds of return: a clean one with counts that are not zero ...
TerminalValueWitness ==
  /\ Returned /\ ret.err = NilErr /\ ret.res.Processed > 0
  /\ ret.res.Found > ret.res.Processed

\* C23: on a nil-error return Inspected = Found = the sum of the page
\* lengths and Processed is the number of records the filter accepted; Found
\* is fixed when the goroutines start and Inspected counts the records the
\* producer has looked at, once each.
CountsExact ==
  /\ mainPc \notin {"parse", "parseFailed", "start", "idle"} =>
       /\ mFound = SumLen(repoPages)
       /\ mInspected = IF pPc \in {"select", "send"}
                            \/ (pPc \in {"closeRepo", "done"} /\ pPos <= NumRepos)
                          THEN pPos ELSE pPos - 1
       /\ mProcessed = AcceptedUpTo(mInspected)
  /\ (Returned /\ ret.err = NilErr) =>
       /\ ret.res.Found = SumLen(repoPages)
       /\ ret.res.Inspected = ret.res.Found
       /\ ret.res.Processed = AcceptedUpTo(NumRepos)

\* A clean return over two pages with an accepted and a rejected record.
CountsExactWitness ==
  /\ Returned /\ ret.err = NilErr /\ ~ctxDone
  /\ Len(repoPages) = 2 /\ ret.res.Inspected = 3
  /\ ret.res.Processed \in {1, 2}

\* C25: records enter the queue in page order and leave it in that order:
\* the queue is sorted by position in the pages, a send appends the
\* producer's current record behind everything sent before, and a worker
\* takes the head, which precedes everything still queued.
SubmissionOrder ==
  [][/\ \A i, j \in 1..Len(repoC) : i < j => repoC[i] < repoC[j]
     /\ \A i \in 1..Len(repoC) :
          /\ repoC[i] < pPos
          /\ \A w \in Workers : wRepo[w] < repoC[i]
          /\ \A n \in Names : invoked[n] > 0 => n < repoC[i]
     /\ Len(repoC') > Len(repoC) =>
          /\ repoC' = Append(repoC, pPos)
          /\ \A w \in Workers : wRepo[w] < pPos
     /\ \A w \in Workers :
          (wRepo'[w] # wRepo[w] /\ wRepo'[w] # 0) =>
            /\ repoC # << >> /\ wRepo'[w] = Head(repoC)
            /\ repoC' = Tail(repoC)
    ]_vars

\* Two records wait in the queue while a worker holds an earlier one.
SubmissionOrderWitness ==
  /\ Len(repoC) = 2
  /\ \E w \in Workers : wRepo[w] # 0 /\ wPc[w] = "processing"

\* C26: when workers fail, the error returned (absent a cancellation) is
\* the first one put on errC; a later one is never returned.
FirstErrorWins ==
  Returned =>
    /\ ret.err.kind = "processing" => ret.err = errSent[1]
    /\ (errSent # << >> /\ ~ctxDone) => ret.err = errSent[1]

\* Two workers failed on different records and the first error came back.
FirstErrorWinsWitness ==
  /\ Returned /\ ~ctxDone /\ Len(errSent) = 2
  /\ errSent[1] # errSent[2] /\ ret.err = errSent[1]

\* C27: a worker that finds the context cancelled when it checks (so every
\* worker that dequeued after the cancellation) starts no processing call;
\* the producer that finds it cancelled enqueues nothing more; and the
\* cancellation itself leaves the calls in flight alone.
CooperativeCancellation ==
  [][/\ \A w \in Workers :
          (wPc[w] = "select" /\ ctxDone) => wPc'[w] # "processing"
     /\ (pPc = "select" /\ ctxDone) => pPc' # "send"
     /\ (pPc \in {"closeRepo", "done"}) => Len(repoC') <= Len(repoC)
     /\ ctxDone' # ctxDone => UNCHANGED << workerVars, invoked >>
    ]_vars

\* After the cancellation one worker has dropped a record while the other
\* is still in the call it had started.
CooperativeCancellationWitness ==
  /\ ctxDone /\ skipped # {}
  /\ \E w \in Workers : wPc[w] = "processing"

\* ------------------------------------------------- cache race claims
\* C24: the teardown at the end of one RunForOrganization call removes no
\* directory that a call of another, still running, run is working in.
TeardownSparesOthers ==
  [][tornDown' # tornDown =>
       \A c \in Callers :
         ( /\ cPc[c] = "processing" /\ Exists(cRepoDir[c])
           /\ \A d \in Callers \ {c} : cPc[d] = "start" ) =>
           cRepoDir[c] \in DOMAIN fs'
    ]_vars

\* C28: with an explicit key a call is only ever handed a copy of a
\* canonical directory whose clone sequence has completed.
CopiesOnlyCompleteClone ==
  \A c \in Callers :
    (ExplicitKey(c) /\ Acquired(c) /\ Exists(cRepoDir[c])) =>
      "checkout" \in fs[cRepoDir[c]]

\* The positions of the clone sequence.
ClonePcs == {"mkdir", "init", "remote", "sparse", "fetch", "checkout", "cleanup"}

\* C29: on a cache hit acquire runs no step of the clone sequence and
\* leaves the canonical directory as it found it; the clone sequence runs
\* only after a miss.
HitReusesAsIs ==
  [][\A c \in Callers :
       /\ cStat[c] = "hit" => cPc[c] \notin ClonePcs
       /\ cPc[c] \in ClonePcs => cStat[c] = "miss"
       /\ (cPc[c] = "stat" /\ cPc'[c] # "stat") =>
            /\ fs' = fs
            /\ cPc'[c] = IF Exists(cCloneDir[c]) THEN "return" ELSE "mkdir"
       /\ (cStat[c] = "hit" /\ cPc[c] = "return" /\ cPc'[c] # "return") =>
            /\ Exists(cCloneDir[c]) <=> cCloneDir[c] \in DOMAIN fs'
            /\ Exists(cCloneDir[c]) => fs'[cCloneDir[c]] = fs[cCloneDir[c]]
    ]_vars

\* A call found the complete canonical clone and works on its copy.
HitReusesAsIsWitness ==
  \E c \in Callers :
    /\ cStat[c] = "hit" /\ ExplicitKey(c) /\ cPc[c] = "processing"
    /\ Holds(cCloneDir[c], {"checkout"})
    /\ Exists(cRepoDir[c]) /\ fs[cRepoDir[c]] = fs[cCloneDir[c]]

\* ------------------------------------------------- pagination claims
Malformed ==
  \/ searchOpts.PerPage < 0
  \/ searchOpts.Page < 0 /\ searchOpts.Page # AllPages

\* C22: with a negative PerPage, or a negative Page other than AllPages,
\* RunForOrganization returns the zero Result with an error at once:
\* no gh call is made and neither the producer nor a worker is started.
MalformedPaginationRejected ==
  Malformed =>
    /\ mainPc \in {"validate", "returned"}
    /\ ghCalls = 0
    /\ pPc = "idle" /\ \A w \in Workers : wPc[w] = "idle"
    /\ \A n \in DOMAIN invoked : invoked[n] = 0
    /\ Returned => ret.res = ZeroResult /\ ret.err.kind = "validation"

\* A run with a valid PerPage and the Page -2 has returned.
MalformedPaginationRejectedWitness ==
  /\ Returned /\ searchOpts.PerPage > 0 /\ searchOpts.Page = -2
  /\ ret.err = ValidationErr("Page") /\ ghCalls = 0

\* ------------------------------------------ SearchOptions.MakeFilterIn
\* Strings whose case matters are sequences of characters.
Chars == {"G", "g", "O", "o", "C", "c"}
Lower ==
  [ch \in Chars |-> CASE ch = "G" -> "g" [] ch = "O" -> "o" [] ch = "C" -> "c"
                      [] OTHER -> ch]

\* A comparison that tells upper case from lower case.
EqualExact(a, b) == a = b

\* strings.EqualFold: equal length and equal characters under case folding.
EqualFold(a, b) ==
  /\ Len(a) = Len(b)
  /\ \A i \in 1..Len(a) : Lower[a[i]] = Lower[b[i]]

\* Visibility.String()
VisibilityString(v) ==
  CASE v = "VisibilityPublic" -> "public"
    [] v = "VisibilityPrivate" -> "private"
    [] v = "VisibilityInternal" -> "internal"
    [] OTHER -> ""

\* The SearchOptions the predicate is built from.  FilterIn is nil or the
\* predicate of a condition; "Visibility(4)" is a value outside the enum.
OptLanguages ==
  { << >>, << <<"G", "o">> >>, << <<"c">>, <<"G", "O">> >> }
OptSearchOptions ==
  [FilterIn : {"nil", "!repo.fork"},
   Languages : OptLanguages,
   ArchiveCondition : {"IncludeArchived", "OnlyArchived", "OmitArchived"},
   Source : {"AllSources", "OnlyForks", "OnlyNonForks"},
   Visibility : {"VisibilityNone", "VisibilityPublic", "VisibilityInternal",
                 "Visibility(4)"},
   SizeCondition : {"All", "NotEmpty", "OnlyEmpty"}]

\* The repositories the predicate is applied to.
OptRepositories ==
  [Name : {"org/a"}, Archived : BOOLEAN, Fork : BOOLEAN, Size : {0, 1},
   DefaultBranchName : {"main"},
   Language : { << >>, <<"g", "o">>, <<"C">> },
   Visibility : {"", "public", "private"}]

\* The filters slice as MakeFilterIn appends to it, one tag per closure.
Filters(so) ==
  (IF so.FilterIn # "nil" THEN << "FilterIn" >> ELSE << >>)
  \o (IF Len(so.Languages) > 0 THEN << "Languages" >> ELSE << >>)
  \o (CASE so.ArchiveCondition = "OnlyArchived" -> << "OnlyArchived" >>
        [] so.ArchiveCondition = "OmitArchived" -> << "OmitArchived" >>
        [] OTHER -> << >>)
  \o (CASE so.Source = "OnlyForks" -> << "OnlyForks" >>
        [] so.Source = "OnlyNonForks" -> << "OnlyNonForks" >>
        [] OTHER -> << >>)
  \o (IF so.Visibility # "VisibilityNone" THEN << "Visibility" >> ELSE << >>)
  \o (CASE so.SizeCondition = "NotEmpty" -> << "NotEmpty" >>
        [] so.SizeCondition = "OnlyEmpty" -> << "OnlyEmpty" >>
        [] OTHER -> << >>)

\* What the closure appended under a tag returns for r.
Filter(tag, so, r) ==
  CASE tag = "FilterIn" -> parseSearchFilterIn(so.FilterIn, r)
    [] tag = "Languages" ->
         \E i \in 1..Len(so.Languages) : EqualFold(so.Languages[i], r.Language)
    [] tag = "OnlyArchived" -> r.Archived
    [] tag = "OmitArchived" -> ~r.Archived
    [] tag = "OnlyForks" -> r.Fork
    [] tag = "OnlyNonForks" -> ~r.Fork
    [] tag = "Visibility" -> r.Visibility = VisibilityString(so.Visibility)
    [] tag = "NotEmpty" -> r.Size > 0
    [] tag = "OnlyEmpty" -> r.Size = 0

\* The returned closure: the filters in order, false at the first that fails.
RECURSIVE RunFilters(_, _, _)
RunFilters(filters, so, r) ==
  IF filters = << >> THEN TRUE
  ELSE IF ~Filter(Head(filters), so, r) THEN FALSE
  ELSE RunFilters(Tail(filters), so, r)

SearchOptionsMakeFilterIn(so, r) == RunFilters(Filters(so), so, r)

\* so.MakeFilterIn()(r)
ApplyFilterIn ==
  /\ optOut = "unset"
  /\ optOut' = IF SearchOptionsMakeFilterIn(optSo, optRepo) THEN "true" ELSE "false"
  /\ UNCHANGED << runVars, optSo, optRepo, orgVars, cacheVars, inputs, ctxDone, chans,
                  counters, workerVars, producerVars, mainVars, panicked,
                  history >>

OptionsInit ==
  /\ OrgIdle /\ CacheIdle /\ RunIdle
  /\ repoPages = << >> /\ nOfWorkers = 1 /\ filterIn = ""
  /\ InitRest("idle")
  /\ optSo \in OptSearchOptions
  /\ optRepo \in OptRepositories
  /\ optOut = "unset"

OptionsNext == ApplyFilterIn

OptionsSpec == OptionsInit /\ [][OptionsNext]_vars

\* --------------------------------------------------- filter claims
\* A string in lower case.
ToLower(str) == [i \in 1..Len(str) |-> Lower[str[i]]]

\* C30: the predicate of SearchOptions.MakeFilterIn is the conjunction of
\* the custom FilterIn when set, a case-insensitive match of the language
\* with some entry of a non-empty Languages, and the archive, source,
\* visibility and size conditions, each only when not at its default.
StructuralConjunction ==
  optOut # "unset" =>
    ( optOut = "true" <=>
        /\ optSo.FilterIn # "nil" => parseSearchFilterIn(optSo.FilterIn, optRepo)
        /\ optSo.Languages # << >> =>
             \E i \in DOMAIN optSo.Languages :
               ToLower(optSo.Languages[i]) = ToLower(optRepo.Language)
        /\ optSo.ArchiveCondition = "OnlyArchived" => optRepo.Archived
        /\ optSo.ArchiveCondition = "OmitArchived" => ~optRepo.Archived
        /\ optSo.Source = "OnlyForks" => optRepo.Fork
        /\ optSo.Source = "OnlyNonForks" => ~optRepo.Fork
        /\ optSo.Visibility # "VisibilityNone" =>
             optRepo.Visibility = VisibilityString(optSo.Visibility)
        /\ optSo.SizeCondition = "NotEmpty" => optRepo.Size > 0
        /\ optSo.SizeCondition = "OnlyEmpty" => optRepo.Size = 0 )

\* Every kind of filter is set, the language differs in case only, and
\* the repository is included.
StructuralConjunctionWitness ==
  /\ optOut = "true"
  /\ Len(Filters(optSo)) = 6
  /\ optRepo.Language = <<"g", "o">>
  /\ \A i \in DOMAIN optSo.Languages : optSo.Languages[i] # optRepo.Language

\* ------------------------------------------------------ pool claims
InFlight == { w \in Workers : wPc[w] = "processing" }

\* C31: once the number of workers N is chosen (Options.NumberOfWorkers
\* when positive, 10 otherwise) the queue never holds more than N
\* repositories and at most N processing calls are under way.
PoolBounded ==
  mainPc # "workers" =>
    /\ nOfWorkers = IF numberOfWorkers > 0 THEN numberOfWorkers ELSE 10
    /\ Len(repoC) <= nOfWorkers
    /\ Cardinality(InFlight) <= nOfWorkers

\* The queue is full while every worker of a chosen pool is processing.
PoolBoundedWitness ==
  /\ mainPc = "select" /\ numberOfWorkers > 0
  /\ Len(repoC) = numberOfWorkers
  /\ Cardinality(InFlight) = numberOfWorkers

\* ------------------------------------------------ termination claims
\* C32: with every processing call returning and fair scheduling,
\* runForReposConcurrently eventually returns, whatever the interleaving
\* of completion, worker errors and cancellation.
EventuallyReturns == <>Returned

\* --------------------------------------------------- empty key claims
\* The call clones: its key function returns "" and the repository is not
\* empty.
EmptyKey(c) == callers[c].CloneCacheKey = "empty" /\ ~IsEmptyRepo(callers[c])

\* C34: a key function returning "" means no cache: the key is the time
\* stamp of the call, the Processor is handed the canonical directory
\* itself, freshly cloned by this call and not a copy, and that directory
\* is removed when the Processor has returned.
EmptyKeyMeansNoCache ==
  [][\A c \in Callers :
       EmptyKey(c) =>
         /\ cPc[c] # "start" =>
              /\ cDirect[c]
              /\ \E t \in 0..MaxClock : cCloneDir[c].key = Format(t)
         /\ cPc[c] = "processing" =>
              /\ cRepoDir[c] = cCloneDir[c]
              /\ cStat[c] = "miss"
         /\ (cPc[c] = "release" /\ cPc'[c] = "done") =>
              cRepoDir[c] \notin DOMAIN fs'
    ]_vars

\* ---------------------------------------------- RunForRepository claims
\* C35: RunForRepository rejects a name with more than one "/" before any
\* command is run; otherwise the Processor is invoked at most once, an
\* error of the acquire or of the Processor, the missing default branch
\* included, is returned wrapped with the name of the repository, and the
\* working directory handed to the Processor is gone at return.
RepositoryContract ==
  [][/\ Count(repoName, "/") > 1 =>
          /\ rfrCmds = 0 /\ cPc[RfrCall] = "idle" /\ ~cTouched[RfrCall]
          /\ rfrPc = "returned" => rfrErr = RfrNameErr
     /\ (cPc[RfrCall] \in {"processEmpty", "processing"}
           /\ cPc'[RfrCall] # cPc[RfrCall]) => cIsEmpty[RfrCall] = "unset"
     /\ (rfrPc = "returned" /\ cPc[RfrCall] = "done") =>
          /\ cErr[RfrCall] = "nil" => rfrErr = RfrNil
          /\ cErr[RfrCall] # "nil" =>
               rfrErr = [kind |-> "processing", repo |-> callers[RfrCall].Name,
                         cause |-> cErr[RfrCall]]
          /\ Acquired(RfrCall) => cRepoDir[RfrCall] \notin DOMAIN fs
    ]_vars

\* A repository without default branch: the error is returned, wrapped.
RepositoryContractWitness ==
  /\ rfrPc = "returned" /\ rfrCmds = 1
  /\ rfrErr = WrapErr(callers[RfrCall].Name, "noDefaultBranch")

\* ------------------------------------------------------- exit claims
Exited == mainPc = "exited"

\* C33: when RunForOrganization has returned, by whichever path, nothing
\* is left under the cache root, and nothing is created there afterwards.
CacheRemovedAtExit == Exited => DOMAIN fs = {}

\* A run that cloned into the cache has returned without error.
CacheRemovedAtExitWitness ==
  /\ Exited /\ ret.err = NilErr /\ ret.res.Processed > 0
  /\ opts.CloneCacheKey = "k"
  /\ \E n \in DOMAIN invoked : invoked[n] > 0 /\ Repos[n].Size > 0

====
